---- MODULE Spec2Model ----
(***************************************************************************)
(* Model of pc_stats_logs/ram_usages: the periodic loop of main.py, the    *)
(* collection and insertion functions of operations/stats_monitor.py, the  *)
(* store initialisation of database/engine.py and DBInterface.create of    *)
(* database/db_interface.py over the two tables of database/models.py.     *)
(*                                                                         *)
(* Values read from the operating system, the GPU driver and the database  *)
(* are inputs: each action draws them from small sets.  A numeric reading  *)
(* is modelled by its kind: "num" a finite float, "none" Python's None,    *)
(* "nan" a non-finite float, "str" a value that is no number at all.       *)
(***************************************************************************)
EXTENDS Integers, Sequences, FiniteSets, TLC

\* ---- bounds of the model
MaxCycles == 2     \* cycles of the while-loop of main_loop that are explored
MaxLoopGpus == 1   \* GPUs visible in a cycle when several cycles are explored
MaxGpus == 3       \* GPUs visible in a cycle when one cycle is explored
MaxBatch == 4      \* length of a batch handed directly to insert_stats_to_db

VARIABLES
    pc,                        \* position of the main_loop task
    conn_string,               \* os.getenv("CONN_STRING")
    dbExists,                  \* the target database exists on the server
    tablesExist,               \* pc_stats and gpu_stats exist
    sessionBound,              \* AsyncDBSession is bound to an engine
    now,                       \* datetime.datetime.now(), as a counter
    pcTable,                   \* rows of pc_stats
    gpuTable,                  \* rows of gpu_stats
    cycles,                    \* calls of gather_stats_pipeline so far
    hostRaw,                   \* this cycle's psutil reading
    gpus,                      \* this cycle's GPUtil.getGPUs() result
    stats_list,                \* the batch under insertion, or None
    idx,                       \* position of insert_stats_to_db's for-loop
    pc_stats_inserted_count,
    gpu_stats_inserted_count,
    calls,                     \* DBInterface.create calls of this cycle
    log,                       \* WARNING / ERROR lines printed this cycle
    outcome,                   \* the line gather_stats_pipeline ended with
    ret                        \* what gather_stats_pipeline returned

vars == <<pc, conn_string, dbExists, tablesExist, sessionBound, now, pcTable,
          gpuTable, cycles, hostRaw, gpus, stats_list, idx,
          pc_stats_inserted_count, gpu_stats_inserted_count, calls, log,
          outcome, ret>>

\* Python's None as a return value.
None == "None"

\* ---- operations/models.py: the pydantic schemas --------------------------

\* gpu.id when the driver reports no index: Python's None, which is not an int.
MissingId == -1

\* Optional[float]: None and every float (NaN and infinities included) pass;
\* a value pydantic cannot coerce to a float is rejected.
OptionalFloatOk(v) == v \in {"num", "none", "nan"}

\* gpu_id: int is required; the other fields are Optional[float].
GpuStatsCreateDataOk(d) == d.gpu_id # MissingId /\ OptionalFloatOk(d.temp)

PcStatsCreateDataOk(d) == OptionalFloatOk(d.pc_usage)

\* ---- operations/stats_monitor.py: get_pc_stats ----------------------------

\* round(x, 2) raises TypeError on None and on a non-number; it returns NaN
\* for NaN.
RoundRaises(v) == v \in {"none", "str"}

\* The readings psutil may deliver: a query raises, or pc_usage has one of
\* the four kinds (pc_usage is the one field that is not rounded, line 31).
HostRaws == [raises : {FALSE}, pc_usage : {"num", "none", "nan", "str"}]
              \cup {[raises |-> TRUE, pc_usage |-> "none"]}

\* The GPU objects GPUtil may deliver at position i of its list.
GpuRawAt(i) == [id : {i, MissingId}, temperature : {"num"}]
                 \cup [id : {i}, temperature : {"nan", "none"}]

\* GPUtil.getGPUs(): it raises, or returns a list of 0..max GPU objects.
GpuEnumerations(max) ==
    {[raises |-> TRUE, list |-> <<>>]} \cup
    [raises : {FALSE},
     list : UNION {{g \in [1..n -> UNION {GpuRawAt(i) : i \in 1..max}] :
                      \A i \in 1..n : g[i] \in GpuRawAt(i)} : n \in 0..max}]

\* pc_data_dict (lines 31-43) and gpu_dict (lines 63-68).
PcDataDict(h) == [pc_usage |-> h.pc_usage]

GpuDict(g) == [gpu_id |-> g.id, temp |-> g.temperature]

\* One GPU passes lines 63-71 when building its dict and validating it do
\* not raise.
GpuPasses(g) == ~RoundRaises(g.temperature) /\ GpuStatsCreateDataOk(GpuDict(g))

\* The for-loop of lines 62-73 inside the inner try: dicts are appended until
\* the first GPU that raises, which ends the loop (line 75).
RECURSIVE GpuLoop(_, _)
GpuLoop(gs, i) ==
    IF i > Len(gs) THEN <<>>
    ELSE IF GpuPasses(gs[i]) THEN <<GpuDict(gs[i])>> \o GpuLoop(gs, i + 1)
    ELSE <<>>

\* Does the inner try (lines 51-78) end in its except clause?
GpuPartRaises(e) == e.raises \/ \E i \in 1..Len(e.list) : ~GpuPasses(e.list[i])

GpuDataListEmptyOnError(e) ==
    IF GpuPartRaises(e) THEN <<>> ELSE GpuLoop(e.list, 1)

\* gpu_data_list when line 81 is reached.
GpuDataList(e) == IF e.raises THEN <<>> ELSE GpuLoop(e.list, 1)

\* Does the outer try raise before the GPU part (lines 29-48)?
HostFails(h) == h.raises \/ ~PcStatsCreateDataOk(PcDataDict(h))

StatsListHostOptional(h, e) ==
    IF HostFails(h)
    THEN [none |-> GpuDataList(e) = <<>>, items |-> GpuDataList(e)]
    ELSE [none |-> FALSE, items |-> <<PcDataDict(h)>> \o GpuDataList(e)]

StatsListNoInnerCatch(h, e) ==
    IF HostFails(h) \/ GpuPartRaises(e)
    THEN [none |-> TRUE, items |-> <<>>]
    ELSE [none |-> FALSE, items |-> <<PcDataDict(h)>> \o GpuDataList(e)]

StatsListHostLast(h, e) ==
    IF HostFails(h)
    THEN [none |-> TRUE, items |-> <<>>]
    ELSE [none |-> FALSE, items |-> GpuDataList(e) \o <<PcDataDict(h)>>]

\* The value get_pc_stats returns: all_stats (line 84), or None (line 91),
\* written [none |-> TRUE, items |-> <<>>].
StatsList(h, e) ==
    IF HostFails(h)
    THEN [none |-> TRUE, items |-> <<>>]
    ELSE [none |-> FALSE, items |-> <<PcDataDict(h)>> \o GpuDataList(e)]

\* The WARNING / ERROR lines get_pc_stats prints (lines 76 and 87).
CollectLog(h, e) ==
    IF HostFails(h) THEN <<[level |-> "ERROR", what |-> "gather", item |-> 0]>>
    ELSE IF GpuPartRaises(e)
         THEN <<[level |-> "WARNING", what |-> "gpu", item |-> 0]>>
         ELSE <<>>

\* Python's truth value of stats_list (main.py line 17, stats_monitor.py
\* line 107): None and the empty list are false.
Truthy(sl) == ~sl.none /\ sl.items # <<>>

\* ---- database/models.py and database/db_interface.py ---------------------

\* The rows PcStats(**data) and GpuStats(**data) give: `time` is not in the
\* dict, so the column default datetime.datetime.now fills it when the row is
\* flushed (models.py lines 23 and 35).
PcRow(item, t) == [time |-> t, pc_usage |-> item.pc_usage]

GpuRow(item, t) == [time |-> t, gpu_id |-> item.gpu_id, temp |-> item.temp]

\* `time` alone is the primary key of both tables (primary_key=True on the
\* time column only): a second row with the same time is an IntegrityError.
KeyConflict(table, t) == \E r \in table : r.time = t

\* What the database may do to one create: "ok"; "fail", an error up to and
\* including the commit (line 49); "fail_after_commit", an error of the
\* refresh (line 50) once the commit is through.
CreateOutcomes == {"ok", "fail", "fail_after_commit"}

\* session.commit() (line 49) makes the row durable.
Commits(table, t, res) ==
    sessionBound /\ tablesExist /\ ~KeyConflict(table, t) /\ res # "fail"

\* create returns to_dict(item) (line 52); otherwise it rolls back and
\* re-raises (lines 53-56).
Returns(table, t, res) == Commits(table, t, res) /\ res = "ok"

\* ---- operations/stats_monitor.py: insert_stats_to_db ---------------------

\* Line 118: 'gpu_id' in item.
IsGpuItem(item) == "gpu_id" \in DOMAIN item

HostGuardAlways(count) == TRUE

\* Line 127: if pc_stats_inserted_count == 0.
HostGuard(count) == count = 0

CatchesNothing == FALSE

\* Line 137: except Exception catches what create raised.
CatchesInsertError == TRUE

CountAlways(returned) == 1

\* Lines 122 and 131: the counter is incremented after create returned.
CountIncrement(returned) == IF returned THEN 1 ELSE 0

\* One create call as the caller sees it: the returned dict's time, or the
\* exception.
Call(kind, t, returned) ==
    [kind |-> kind, item |-> idx, time |-> t,
     result |-> IF returned THEN "ok" ELSE "raise"]

\* The end of one iteration of the for-loop (lines 115-141) and, after the
\* last one, the return to gather_stats_pipeline (main.py lines 18-19).  An
\* exception that line 137 did not catch would end the call and reach the
\* pipeline's handler (main.py lines 24-25).
EndIteration(returned, attempted) ==
    IF attempted /\ ~returned /\ ~CatchesInsertError
    THEN /\ pc' = "sleep"
         /\ outcome' = "error"
         /\ ret' = None
         /\ idx' = idx
         /\ log' = log
    ELSE /\ log' = IF attempted /\ ~returned
                   THEN Append(log, [level |-> "ERROR", what |-> "insert",
                                     item |-> idx])
                   ELSE IF ~attempted
                        THEN Append(log, [level |-> "WARNING", what |-> "skip",
                                          item |-> idx])
                        ELSE log
         /\ idx' = idx + 1
         /\ IF idx = Len(stats_list.items)
            THEN pc' = "sleep" /\ outcome' = "inserted" /\ ret' = None
            ELSE pc' = pc /\ outcome' = outcome /\ ret' = ret

InsertGpu(item, t, res) ==
    /\ gpuTable' = IF Commits(gpuTable, t, res)
                   THEN gpuTable \cup {GpuRow(item, t)} ELSE gpuTable
    /\ calls' = Append(calls, Call("gpu", t, Returns(gpuTable, t, res)))
    /\ gpu_stats_inserted_count' =
           gpu_stats_inserted_count + CountIncrement(Returns(gpuTable, t, res))
    /\ now' = t
    /\ EndIteration(Returns(gpuTable, t, res), TRUE)
    /\ UNCHANGED <<pcTable, pc_stats_inserted_count>>

InsertPc(item, t, res) ==
    /\ pcTable' = IF Commits(pcTable, t, res)
                  THEN pcTable \cup {PcRow(item, t)} ELSE pcTable
    /\ calls' = Append(calls, Call("pc", t, Returns(pcTable, t, res)))
    /\ pc_stats_inserted_count' =
           pc_stats_inserted_count + CountIncrement(Returns(pcTable, t, res))
    /\ now' = t
    /\ EndIteration(Returns(pcTable, t, res), TRUE)
    /\ UNCHANGED <<gpuTable, gpu_stats_inserted_count>>

SkipPc ==
    /\ EndIteration(FALSE, FALSE)
    /\ UNCHANGED <<pcTable, gpuTable, calls, pc_stats_inserted_count,
                   gpu_stats_inserted_count, now>>

\* Does the iteration at idx await a create (lines 121 and 130)?
AwaitsCreate ==
    /\ pc = "insert"
    /\ idx <= Len(stats_list.items)
    /\ \/ IsGpuItem(stats_list.items[idx])
       \/ HostGuard(pc_stats_inserted_count)

\* One iteration of the for-loop of insert_stats_to_db.  The clock read by the
\* column default is the last reading or a later one.
InsertItem ==
    /\ pc = "insert"
    /\ idx <= Len(stats_list.items)
    /\ LET item == stats_list.items[idx] IN
         IF IsGpuItem(item)
         THEN \E t \in {now, now + 1}, res \in CreateOutcomes :
                  InsertGpu(item, t, res)
         ELSE IF HostGuard(pc_stats_inserted_count)
              THEN \E t \in {now, now + 1}, res \in CreateOutcomes :
                       InsertPc(item, t, res)
              ELSE SkipPc
    /\ UNCHANGED <<conn_string, dbExists, tablesExist, sessionBound, cycles,
                   hostRaw, gpus, stats_list>>

\* Lines 107-110: an empty batch returns at once.
InsertEmpty ==
    /\ pc = "insert"
    /\ ~Truthy(stats_list)
    /\ pc' = "sleep"
    /\ outcome' = "inserted"
    /\ ret' = None
    /\ UNCHANGED <<conn_string, dbExists, tablesExist, sessionBound, now,
                   pcTable, gpuTable, cycles, hostRaw, gpus, stats_list, idx,
                   pc_stats_inserted_count, gpu_stats_inserted_count, calls,
                   log>>

\* ---- database/engine.py: init_db -----------------------------------------

InitDbErrorPcContinue == "collect"

\* An exception of init_db reaches `except Exception` of main_loop (main.py
\* lines 67-69), after which main_loop ends.
InitDbErrorPc == "failed"

\* Lines 36-45: asyncpg.connect to the 'postgres' database; an error is
\* re-raised (lines 60-64).
InitDbConnect ==
    /\ pc = "init_connect"
    /\ \E ok \in BOOLEAN :
         pc' = IF ok THEN "init_database" ELSE InitDbErrorPc
    /\ UNCHANGED <<conn_string, dbExists, tablesExist, sessionBound, now,
                   pcTable, gpuTable, cycles, hostRaw, gpus, stats_list, idx,
                   pc_stats_inserted_count, gpu_stats_inserted_count, calls,
                   log, outcome, ret>>

\* Lines 47-68: the database is looked up and created when absent.  "ok": the
\* statements succeed; "duplicate": CREATE DATABASE raises
\* DuplicateDatabaseError, which is swallowed (lines 58-59); "raise": any
\* other error, re-raised.
InitDbEnsureDatabase ==
    /\ pc = "init_database"
    /\ \E r \in {"ok", "duplicate", "raise"} :
         /\ r = "duplicate" => ~dbExists
         /\ dbExists' = (dbExists \/ r # "raise")
         /\ pc' = IF r = "raise" THEN InitDbErrorPc ELSE "init_tables"
    /\ UNCHANGED <<conn_string, tablesExist, sessionBound, now, pcTable,
                   gpuTable, cycles, hostRaw, gpus, stats_list, idx,
                   pc_stats_inserted_count, gpu_stats_inserted_count, calls,
                   log, outcome, ret>>

\* Lines 70-84: the engine is created, create_all makes both tables, and only
\* then AsyncDBSession is bound (line 83).
InitDbCreateTables ==
    /\ pc = "init_tables"
    /\ \E ok \in BOOLEAN :
         /\ tablesExist' = (tablesExist \/ ok)
         /\ sessionBound' = ok
         /\ pc' = IF ok THEN "collect" ELSE InitDbErrorPc
    /\ UNCHANGED <<conn_string, dbExists, now, pcTable, gpuTable, cycles,
                   hostRaw, gpus, stats_list, idx, pc_stats_inserted_count,
                   gpu_stats_inserted_count, calls, log, outcome, ret>>

\* ---- main.py ---------------------------------------------------------------

\* Line 49: `if not conn_string` holds for None and for the empty string.
ConnMissing(c) == c \in {"unset", "empty"}

\* main_loop lines 38-52: the environment is read and checked.
LoadEnv ==
    /\ pc = "start"
    /\ pc' = IF ConnMissing(conn_string) THEN "exited" ELSE "init_connect"
    /\ UNCHANGED <<conn_string, dbExists, tablesExist, sessionBound, now,
                   pcTable, gpuTable, cycles, hostRaw, gpus, stats_list, idx,
                   pc_stats_inserted_count, gpu_stats_inserted_count, calls,
                   log, outcome, ret>>

\* gather_stats_pipeline lines 15-23 on the readings h and e: get_pc_stats
\* runs without awaiting, then the batch is inserted or "no data" is printed
\* and the pipeline returns.
GetPcStats(h, e) ==
    /\ pc = "collect"
    /\ hostRaw' = h
    /\ gpus' = e
    /\ stats_list' = StatsList(h, e)
    /\ log' = CollectLog(h, e)
    /\ IF Truthy(StatsList(h, e))
       THEN pc' = "insert" /\ outcome' = "running" /\ ret' = "pending"
       ELSE pc' = "sleep" /\ outcome' = "nodata" /\ ret' = None
    /\ cycles' = cycles + 1
    /\ idx' = 1
    /\ pc_stats_inserted_count' = 0
    /\ gpu_stats_inserted_count' = 0
    /\ calls' = <<>>
    /\ UNCHANGED <<conn_string, dbExists, tablesExist, sessionBound, now,
                   pcTable, gpuTable>>

AfterSleepPcOnce == "exited"

\* Lines 61-63: `while True` takes the task back to the pipeline.
AfterSleepPc == "collect"

SleepNotAwaited ==
    /\ pc \in {"sleep", "insert"}
    /\ pc' = AfterSleepPc
    /\ now' = now + 1
    /\ UNCHANGED <<conn_string, dbExists, tablesExist, sessionBound, pcTable,
                   gpuTable, cycles, hostRaw, gpus, stats_list, idx,
                   pc_stats_inserted_count, gpu_stats_inserted_count, calls,
                   log, outcome, ret>>

\* Line 63: asyncio.sleep(interval_seconds) returns; the clock has advanced.
Sleep ==
    /\ pc = "sleep"
    /\ pc' = AfterSleepPc
    /\ now' = now + 1
    /\ UNCHANGED <<conn_string, dbExists, tablesExist, sessionBound, pcTable,
                   gpuTable, cycles, hostRaw, gpus, stats_list, idx,
                   pc_stats_inserted_count, gpu_stats_inserted_count, calls,
                   log, outcome, ret>>

CancelSwallowed ==
    /\ AwaitsCreate
    /\ calls' = Append(calls,
           [kind |-> IF IsGpuItem(stats_list.items[idx]) THEN "gpu" ELSE "pc",
            item |-> idx, time |-> now, result |-> "cancelled"])
    /\ idx' = idx + 1
    /\ IF idx = Len(stats_list.items)
       THEN pc' = "sleep" /\ outcome' = "inserted" /\ ret' = None
       ELSE pc' = pc /\ outcome' = outcome /\ ret' = ret
    /\ UNCHANGED <<conn_string, dbExists, tablesExist, sessionBound, now,
                   pcTable, gpuTable, cycles, hostRaw, gpus, stats_list,
                   pc_stats_inserted_count, gpu_stats_inserted_count, log>>

\* asyncio.CancelledError is delivered at an await: in init_db, in a create,
\* or in the sleep.  It is no Exception, so only lines 64-66 of main_loop
\* catch it.  A create cancelled while it awaits the commit or the refresh
\* has committed its row or has not.
Cancel ==
    /\ \/ pc \in {"init_connect", "init_database", "init_tables", "sleep"}
       \/ AwaitsCreate
    /\ pc' = "stopped"
    /\ IF AwaitsCreate
       THEN \E t \in {now, now + 1}, committed \in BOOLEAN :
              LET item == stats_list.items[idx]
                  gpu == IsGpuItem(item)
                  table == IF gpu THEN gpuTable ELSE pcTable
                  done == committed /\ Commits(table, t, "ok")
              IN /\ gpuTable' = IF gpu /\ done
                                THEN gpuTable \cup {GpuRow(item, t)}
                                ELSE gpuTable
                 /\ pcTable' = IF ~gpu /\ done
                               THEN pcTable \cup {PcRow(item, t)}
                               ELSE pcTable
                 /\ calls' = Append(calls,
                        [kind |-> IF gpu THEN "gpu" ELSE "pc", item |-> idx,
                         time |-> t, result |-> "cancelled"])
                 /\ now' = t
       ELSE UNCHANGED <<gpuTable, pcTable, calls, now>>
    /\ UNCHANGED <<conn_string, dbExists, tablesExist, sessionBound, cycles,
                   hostRaw, gpus, stats_list, idx, pc_stats_inserted_count,
                   gpu_stats_inserted_count, log, outcome, ret>>

\* ---- the program: main_loop from process start ----------------------------

NoHost == [raises |-> TRUE, pc_usage |-> "none"]

NoGpus == [raises |-> FALSE, list |-> <<>>]

Init ==
    /\ pc = "start"
    /\ conn_string \in {"unset", "empty", "ok"}
    /\ dbExists \in BOOLEAN
    /\ tablesExist = FALSE
    /\ sessionBound = FALSE
    /\ now = 0
    /\ pcTable = {}
    /\ gpuTable = {}
    /\ cycles = 0
    /\ hostRaw = NoHost
    /\ gpus = NoGpus
    /\ stats_list = [none |-> TRUE, items |-> <<>>]
    /\ idx = 1
    /\ pc_stats_inserted_count = 0
    /\ gpu_stats_inserted_count = 0
    /\ calls = <<>>
    /\ log = <<>>
    /\ outcome = "none"
    /\ ret = "pending"

\* The readings of a cycle when several cycles are explored: psutil raises,
\* or delivers a finite or an invalid pc_usage; GPUtil raises, or lists up to
\* MaxLoopGpus GPUs whose temperature is finite or cannot be read.
LoopHostRaws == {h \in HostRaws : h.raises \/ h.pc_usage \in {"num", "str"}}

LoopGpuEnumerations ==
    {e \in GpuEnumerations(MaxLoopGpus) :
        \A i \in 1..Len(e.list) :
            e.list[i].id = i /\ e.list[i].temperature \in {"num", "none"}}

StartCycle ==
    /\ cycles < MaxCycles
    /\ \E h \in LoopHostRaws, e \in LoopGpuEnumerations : GetPcStats(h, e)

Next ==
    \/ LoadEnv
    \/ InitDbConnect
    \/ InitDbEnsureDatabase
    \/ InitDbCreateTables
    \/ StartCycle
    \/ InsertItem
    \/ Sleep
    \/ Cancel

Spec == Init /\ [][Next]_vars

\* ---- one cycle of the loop, on every reading ------------------------------

\* The state in which main_loop first reaches line 62.
InitCycle ==
    /\ pc = "collect"
    /\ conn_string = "ok"
    /\ dbExists = TRUE
    /\ tablesExist = TRUE
    /\ sessionBound = TRUE
    /\ now = 0
    /\ pcTable = {}
    /\ gpuTable = {}
    /\ cycles = 0
    /\ hostRaw = NoHost
    /\ gpus = NoGpus
    /\ stats_list = [none |-> TRUE, items |-> <<>>]
    /\ idx = 1
    /\ pc_stats_inserted_count = 0
    /\ gpu_stats_inserted_count = 0
    /\ calls = <<>>
    /\ log = <<>>
    /\ outcome = "none"
    /\ ret = "pending"

FirstCycle ==
    /\ cycles = 0
    /\ \E h \in HostRaws, e \in GpuEnumerations(MaxGpus) : GetPcStats(h, e)

NextCycle == FirstCycle \/ InsertItem \/ Sleep \/ Cancel

SpecCycle == InitCycle /\ [][NextCycle]_vars

\* ---- insert_stats_to_db called on an arbitrary batch ----------------------

\* The dicts a batch may hold: host-shaped (no gpu_id) and GPU-shaped.
BatchItems == [pc_usage : {"num"}] \cup [gpu_id : 1..3, temp : {"num"}]

Batches == UNION {[1..n -> BatchItems] : n \in 0..MaxBatch}

InitBatch ==
    /\ pc = "insert"
    /\ conn_string = "ok"
    /\ dbExists = TRUE
    /\ tablesExist = TRUE
    /\ sessionBound = TRUE
    /\ now = 0
    /\ pcTable = {}
    /\ gpuTable = {}
    /\ cycles = 1
    /\ hostRaw = NoHost
    /\ gpus = NoGpus
    /\ stats_list \in [none : {FALSE}, items : Batches]
    /\ idx = 1
    /\ pc_stats_inserted_count = 0
    /\ gpu_stats_inserted_count = 0
    /\ calls = <<>>
    /\ log = <<>>
    /\ outcome = "running"
    /\ ret = "pending"

NextBatch == InsertItem \/ InsertEmpty

SpecBatch == InitBatch /\ [][NextBatch]_vars

\* ---- vocabulary of the properties -----------------------------------------

\* The create calls of the current cycle, by kind and by result.
CallsOf(kind) == {c \in 1..Len(calls) : calls[c].kind = kind}

OkCalls(kind) == {c \in CallsOf(kind) : calls[c].result = "ok"}

RaisedCalls == {c \in 1..Len(calls) : calls[c].result = "raise"}

CallsForItem(i) == {c \in 1..Len(calls) : calls[c].item = i}

\* gather_stats_pipeline has returned from the current cycle.
Reported == cycles > 0 /\ outcome \in {"inserted", "nodata", "error"}

\* The lines of the log of one kind.
LogLines(what) == {l \in 1..Len(log) : log[l].what = what}

\* Positions of the GPU-shaped and host-shaped dicts of the batch.
GpuItems == {i \in 1..Len(stats_list.items) : IsGpuItem(stats_list.items[i])}

HostItems == (1..Len(stats_list.items)) \ GpuItems

C3_FailingGpuDroppedAlone ==
    (cycles > 0 /\ ~HostFails(hostRaw) /\ ~gpus.raises) =>
        /\ ~stats_list.none
        /\ stats_list.items[1] = PcDataDict(hostRaw)
        /\ \A i \in 1..Len(gpus.list) :
               GpuPasses(gpus.list[i]) =>
                   \E j \in GpuItems : stats_list.items[j] = GpuDict(gpus.list[i])

\* ---- C4 --------------------------------------------------------------------
\* C4: in a cycle whose GPU enumeration raised after a valid host reading, the
\* batch is exactly the host record and no GPU create is issued; once the
\* cycle is reported, the pipeline ended with its success line, the host create
\* was attempted once and the host row is in pc_stats unless that create itself
\* raised, no GPU row was counted, and the only ERROR line possible is the one
\* of a raised host create.
C4_EnumerationFailureDegrades ==
    (cycles > 0 /\ gpus.raises /\ ~HostFails(hostRaw)) =>
        /\ stats_list = [none |-> FALSE, items |-> <<PcDataDict(hostRaw)>>]
        /\ CallsOf("gpu") = {}
        /\ LogLines("gather") = {}
        /\ Reported =>
             /\ outcome = "inserted"
             /\ Cardinality(CallsOf("pc")) = 1
             /\ gpu_stats_inserted_count = 0
             /\ pc_stats_inserted_count = 1 - Cardinality(RaisedCalls)
             /\ Cardinality(LogLines("insert")) = Cardinality(RaisedCalls)
             /\ OkCalls("pc") # {} =>
                    PcRow(PcDataDict(hostRaw), calls[1].time) \in pcTable

\* The enumeration raised and the host row of the cycle was inserted.
C4_Witness ==
    /\ Reported
    /\ gpus.raises
    /\ pc_stats_inserted_count = 1
    /\ gpuTable = {}
    /\ LogLines("gpu") # {}
    /\ \E r \in pcTable : r.time = calls[1].time

\* ---- C5 --------------------------------------------------------------------
\* C5: in every step that collects a failing host reading (collection raised
\* or validation failed), and in every later step of that cycle, both tables
\* stay as they were, no create call is on record and the pipeline's outcome
\* is "no data".
C5_HostFailureNoCreate ==
    [][(cycles' > 0 /\ HostFails(hostRaw')) =>
           /\ pcTable' = pcTable
           /\ gpuTable' = gpuTable
           /\ calls' = <<>>
           /\ outcome' = "nodata"
           /\ pc' \in {"sleep", "collect", "stopped"}]_vars

\* A second cycle whose host validation failed while a GPU was visible and the
\* store already held rows.
C5_Witness ==
    /\ cycles = 2
    /\ ~hostRaw.raises /\ HostFails(hostRaw)
    /\ ~gpus.raises /\ Len(gpus.list) > 0 /\ GpuPasses(gpus.list[1])
    /\ outcome = "nodata"
    /\ pcTable # {} /\ gpuTable # {}

\* ---- C6 --------------------------------------------------------------------
\* The number of GPUs at the head of the list that pass lines 63-71.
PassingPrefix(gs) ==
    CHOOSE k \in 0..Len(gs) :
        /\ \A i \in 1..k : GpuPasses(gs[i])
        /\ k = Len(gs) \/ ~GpuPasses(gs[k + 1])

C7_NoCycleBeforeInit ==
    /\ (cycles > 0 \/ calls # <<>> \/ pc \in {"collect", "insert", "sleep"}) =>
           /\ ~ConnMissing(conn_string)
           /\ dbExists /\ tablesExist /\ sessionBound
    /\ ConnMissing(conn_string) => pc \in {"start", "exited"}
    /\ pc \in {"exited", "failed"} =>
           cycles = 0 /\ calls = <<>> /\ pcTable = {} /\ gpuTable = {}

\* init_db raised while creating the tables: main_loop has ended.
C7_Witness ==
    /\ pc = "failed"
    /\ dbExists
    /\ ~tablesExist
    /\ cycles = 0

\* ---- C8 --------------------------------------------------------------------
\* C8: once the loop runs, the task leaves a cycle only into the sleep, and
\* leaves the sleep only into the next cycle, unless it is cancelled; it is
\* stopped by nothing but a cancellation, and whatever a cycle's errors were,
\* the sleep and the next collection can be taken.
C8_LoopSurvivesErrors ==
    /\ [][/\ pc \in {"collect", "insert"} =>
                pc' \in {"collect", "insert", "sleep", "stopped"}
          /\ pc = "sleep" => pc' \in {"collect", "stopped"}
          /\ pc' = "stopped" => Cancel]_vars
    /\ [](pc \in {"collect", "insert", "sleep"} =>
              /\ ~ConnMissing(conn_string)
              /\ pc = "sleep" => ENABLED Sleep
              /\ (pc = "collect" /\ cycles < MaxCycles) => ENABLED StartCycle
              /\ (pc = "insert") => ENABLED InsertItem)

\* The second cycle has inserted its host row, the only row of the store:
\* the first cycle failed (in collection, in validation or in its creates),
\* left nothing behind, and the loop went on.
C8_Witness ==
    /\ cycles = 2
    /\ pc = "insert"
    /\ idx = 2
    /\ OkCalls("pc") = {1}
    /\ pcTable = {PcRow(stats_list.items[1], calls[1].time)}
    /\ gpuTable = {}

C10_InsertRaises ==
    (Reported /\ RaisedCalls # {}) => outcome = "error"

\* ---- C11 -------------------------------------------------------------------
\* The rows of gpu_stats that hold the fields of the GPU dict d.
RowsOfGpuDict(d) == {r \in gpuTable : r.gpu_id = d.gpu_id /\ r.temp = d.temp}

\* C11: a record presented to create more than once (the same dict at two
\* positions of a batch, the store being empty before) has at most one row in
\* the store.
C11_CreateIdempotent ==
    \A i \in GpuItems : \A j \in GpuItems :
        (i < j /\ stats_list.items[i] = stats_list.items[j]) =>
            Cardinality(RowsOfGpuDict(stats_list.items[i])) <= 1

\* ---- C12 -------------------------------------------------------------------
\* C12: the rows one cycle has persisted all carry the same time: the creates
\* of a reported cycle that returned a row returned one and the same time.
C12_OneTimestampPerCycle ==
    Reported =>
        \A c \in 1..Len(calls) : \A d \in 1..Len(calls) :
            (calls[c].result = "ok" /\ calls[d].result = "ok") =>
                calls[c].time = calls[d].time

\* ---- C13 -------------------------------------------------------------------
\* C13: gpu_stats is keyed by (time, gpu_id): the create of a GPU record whose
\* time the key rule of the table refuses finds a row with the same time and
\* the same gpu_id in the table; a row that shares only the time is no
\* conflict.
C13_CompositeGpuKey ==
    [][(/\ Len(calls') = Len(calls) + 1
        /\ calls'[Len(calls')].kind = "gpu"
        /\ KeyConflict(gpuTable, calls'[Len(calls')].time)) =>
           \E r \in gpuTable :
               /\ r.time = calls'[Len(calls')].time
               /\ r.gpu_id = stats_list.items[calls'[Len(calls')].item].gpu_id]_vars

\* ---- C14 -------------------------------------------------------------------
\* C14: a raw snapshot with a non-finite number fails validation: a host
\* reading with a NaN ends the cycle without a batch, a GPU with a NaN is not
\* in the batch, and no row of either table holds a NaN.
C14_NonFiniteRejected ==
    cycles > 0 =>
        /\ hostRaw.pc_usage = "nan" => stats_list.none
        /\ \A i \in GpuItems : stats_list.items[i].temp # "nan"
        /\ \A r \in pcTable : r.pc_usage # "nan"
        /\ \A r \in gpuTable : r.temp # "nan"

\* ---- C15 -------------------------------------------------------------------
\* C15: a cancellation stops the loop cleanly.  A create that was cancelled is
\* the last create on record and the task is stopped; the stopping step keeps
\* every row, starts no cycle, adds nothing when it interrupts the sleep and at
\* most the whole row of the record under insertion when it interrupts a
\* create; once stopped, nothing changes any more.
C15_CancelStopsCleanly ==
    /\ [](\A c \in 1..Len(calls) :
              calls[c].result = "cancelled" => c = Len(calls) /\ pc = "stopped")
    /\ [][(pc' = "stopped" /\ pc # "stopped") =>
              /\ pcTable \subseteq pcTable'
              /\ gpuTable \subseteq gpuTable'
              /\ cycles' = cycles
              /\ pc = "sleep" =>
                     pcTable' = pcTable /\ gpuTable' = gpuTable /\ calls' = calls
              /\ \A r \in pcTable' \ pcTable :
                     /\ ~IsGpuItem(stats_list.items[idx])
                     /\ pcTable' \ pcTable = {r}
                     /\ r.pc_usage = stats_list.items[idx].pc_usage
                     /\ r.time = calls'[Len(calls')].time
              /\ \A r \in gpuTable' \ gpuTable :
                     /\ IsGpuItem(stats_list.items[idx])
                     /\ gpuTable' \ gpuTable = {r}
                     /\ r.gpu_id = stats_list.items[idx].gpu_id
                     /\ r.temp = stats_list.items[idx].temp
                     /\ r.time = calls'[Len(calls')].time]_vars
    /\ [][pc = "stopped" =>
              /\ pc' = "stopped" /\ cycles' = cycles /\ calls' = calls
              /\ pcTable' = pcTable /\ gpuTable' = gpuTable]_vars

\* The second cycle was cancelled in the create of its GPU record: the host
\* rows of both cycles are kept, the GPU row was committed whole.
C15_Witness ==
    /\ pc = "stopped"
    /\ cycles = 2
    /\ Len(calls) = 2
    /\ calls[1].result = "ok"
    /\ calls[2].result = "cancelled"
    /\ Cardinality(pcTable) = 2
    /\ gpuTable = {GpuRow(stats_list.items[2], calls[2].time)}

\* ---- C16 -------------------------------------------------------------------
\* C16: a host-shaped record that follows another host-shaped record of the
\* batch is never passed to create, whether the earlier host create returned
\* or raised.
C16_LaterHostsSkipped ==
    \A i \in HostItems :
        (\E j \in HostItems : j < i) => CallsForItem(i) = {}

\* ---- C17 -------------------------------------------------------------------
\* C17: create is attempted once per record, and a create that raises leaves
\* both tables exactly as they were before the call.
C17_CreateAtomicNoRetry ==
    /\ [](\A i \in 1..Len(stats_list.items) : Cardinality(CallsForItem(i)) <= 1)
    /\ [][(/\ Len(calls') = Len(calls) + 1
           /\ calls'[Len(calls')].result = "raise") =>
              pcTable' = pcTable /\ gpuTable' = gpuTable]_vars

\* ---- C18 -------------------------------------------------------------------
\* C18: in the create calls of one cycle, every GPU create comes after the
\* host create attempt.
C18_HostCreateFirst ==
    \A c \in CallsOf("gpu") : \E d \in CallsOf("pc") : d < c

\* The host create raised first, then two GPU creates were issued.
C18_Witness ==
    /\ Reported
    /\ Len(calls) = 3
    /\ calls[1].kind = "pc" /\ calls[1].result = "raise"
    /\ CallsOf("gpu") = {2, 3}

\* ---- C19 -------------------------------------------------------------------
\* C19: cycles do not overlap.  A cycle starts only from the loop head, and a
\* later cycle only when the previous one was reported with every record of
\* its batch attempted or skipped; the loop head is reached only from init_db
\* or from the sleep, with the clock advanced; and every create on record
\* belongs to a record of the current batch that the loop has reached.
C19_CyclesDoNotOverlap ==
    /\ [][cycles' # cycles =>
              /\ pc = "collect"
              /\ calls' = <<>>
              /\ cycles > 0 =>
                     /\ outcome \in {"inserted", "nodata"}
                     /\ outcome = "inserted" =>
                            /\ idx = Len(stats_list.items) + 1
                            /\ \A i \in 1..Len(stats_list.items) :
                                   \/ CallsForItem(i) # {}
                                   \/ \E l \in LogLines("skip") : log[l].item = i]_vars
    /\ [][(pc' = "collect" /\ pc # "collect") =>
              \/ pc = "init_tables" /\ cycles = 0
              \/ pc = "sleep" /\ now' > now]_vars
    /\ [](\A c \in 1..Len(calls) :
              /\ calls[c].item \in 1..Len(stats_list.items)
              /\ calls[c].item <= idx
              /\ calls[c].item < idx \/ calls[c].result = "cancelled"
              /\ (calls[c].kind = "gpu") = IsGpuItem(stats_list.items[calls[c].item]))

\* The second cycle is in its first create while the rows of the first cycle
\* are in the store.
C19_Witness ==
    /\ cycles = 2
    /\ pc = "insert"
    /\ idx = 2
    /\ Len(calls) = 1
    /\ gpuTable # {}
    /\ \E r \in pcTable : r.time < calls[1].time

\* ---- C20 -------------------------------------------------------------------
\* C20: get_pc_stats returns None exactly when the host reading fails;
\* otherwise its batch is non-empty, starts with the host record of the
\* reading, which has no gpu_id, and continues with GPU records only, each
\* with an integer gpu_id.
C20_BatchShape ==
    cycles > 0 =>
        /\ stats_list.none = HostFails(hostRaw)
        /\ stats_list.none => stats_list.items = <<>>
        /\ ~stats_list.none =>
               /\ Len(stats_list.items) >= 1
               /\ stats_list.items[1] = [pc_usage |-> hostRaw.pc_usage]
               /\ HostItems = {1}
               /\ \A i \in GpuItems : stats_list.items[i].gpu_id # MissingId

\* A batch of the host record and two GPU records, the third GPU having failed.
C20_Witness ==
    /\ cycles > 0
    /\ Len(gpus.list) = 3
    /\ Len(stats_list.items) = 3
    /\ GpuItems = {2, 3}

====
